---- MODULE Spec2Model ----
(***************************************************************************)
(* Habit tracker: the habits and completions tables of habits.db, the      *)
(* Habit class of habit_tracker.py, the `complete`, `add` and `delete`     *)
(* commands of cli.py and the queries of analytics.py.                     *)
(*                                                                         *)
(* A datetime.date is the number of days since 1970-01-01.  A date TEXT    *)
(* column holds the ten characters of date.isoformat(): digits are the     *)
(* numbers 0..9 and '-' is Dash, which sorts below every digit as it does  *)
(* in ASCII.                                                               *)
(***************************************************************************)
EXTENDS Integers, Sequences, FiniteSets, Bags, TLC

\* ---------------------------------------------------------------- bounds
\* the day the run starts, 2025-01-03, as days since 1970-01-01
Today0 == 20091
\* midnights that pass in a command-line session
MaxTicks == 2
\* rows the completions table may hold
MaxRows == 2
\* consecutive days, and whole weeks, a stored history may reach back
MaxRun == 5
MaxWeeks == 3

\* ------------------------------------------------------------ input sets
Names == {"Exercise", "Read a book"}
Periodicities == {"daily", "weekly"}
\* days before now of an explicit date argument
DateOffsets == {0, 1, 7, 14}
\* days before now of the completions of a stored history
StreakOffsets == (0..(MaxRun - 1)) \cup {7 * k : k \in 1..MaxWeeks}
QueryOffsets == {0, 1, 7, 8}

\* date=None
NoDate == -1
\* no Habit object constructed yet
NoObject == [name |-> "", periodicity |-> "", created_at |-> 0, streak |-> 0]
Dash == -1

VARIABLES today, habits, completions, self, last

vars == <<today, habits, completions, self, last>>

\* ------------------------------------------------- datetime.date <-> TEXT
\* the civil date <<year, month, day>> of day number z
ymd(z) ==
    LET s == z + 719468
        era == s \div 146097
        doe == s - era * 146097
        yoe == (doe - doe \div 1460 + doe \div 36524 - doe \div 146096) \div 365
        doy == doe - (365 * yoe + yoe \div 4 - yoe \div 100)
        mp == (5 * doy + 2) \div 153
        m == IF mp < 10 THEN mp + 3 ELSE mp - 9
    IN  << yoe + era * 400 + (IF m <= 2 THEN 1 ELSE 0),
           m,
           doy - (153 * mp + 2) \div 5 + 1 >>

\* date.isoformat(): "YYYY-MM-DD", zero padded
isoformat(z) ==
    LET c == ymd(z)
        y == c[1]
        m == c[2]
        d == c[3]
    IN  << y \div 1000, (y \div 100) % 10, (y \div 10) % 10, y % 10, Dash,
           m \div 10, m % 10, Dash, d \div 10, d % 10 >>

\* datetime.strptime(text, "%Y-%m-%d").date()
strptime(t) ==
    LET y0 == t[1] * 1000 + t[2] * 100 + t[3] * 10 + t[4]
        m == t[6] * 10 + t[7]
        d == t[9] * 10 + t[10]
        y == IF m <= 2 THEN y0 - 1 ELSE y0
        era == y \div 400
        yoe == y - era * 400
        doy == (153 * (IF m > 2 THEN m - 3 ELSE m + 9) + 2) \div 5 + d - 1
        doe == yoe * 365 + yoe \div 4 - yoe \div 100 + doy
    IN  era * 146097 + doe - 719468

\* SQLite's comparison of two TEXT values (BINARY collation): a < b when a
\* is smaller at the first character that differs, or is a proper prefix
TextLess(a, b) ==
    \/ \E i \in 1..Len(a) :
          /\ i <= Len(b)
          /\ a[i] < b[i]
          /\ \A j \in 1..(i - 1) : a[j] = b[j]
    \/ /\ Len(a) < Len(b)
       /\ \A j \in 1..Len(a) : a[j] = b[j]

TextGeq(a, b) == ~TextLess(a, b)

\* ------------------------------------------------------ completions table
\* a row of completions (the time column is never read back)
Row(n, t) == [habit_name |-> n, date |-> t]

\* the rows of table c whose habit_name is n, with their multiplicity
RowsOf(c, n) == {r \in BagToSet(c) : r.habit_name = n}

BagOf(c, n) == [r \in RowsOf(c, n) |-> c[r]]

\* ... ORDER BY date ASC
RECURSIVE OrderByDate(_)
OrderByDate(b) ==
    IF BagToSet(b) = {} THEN << >>
    ELSE LET m == CHOOSE r \in BagToSet(b) :
                     \A q \in BagToSet(b) : ~TextLess(q.date, r.date)
         IN  <<m.date>> \o OrderByDate(b (-) SetToBag({m}))

\* SELECT date FROM completions WHERE habit_name = n ORDER BY date ASC
SelectDatesAsc(c, n) == OrderByDate(BagOf(c, n))

\* variant: the table declared without its primary key
NoPrimaryKey(c, n, t) == FALSE

\* INSERT INTO completions: the PRIMARY KEY (habit_name, date) refuses a
\* second row with the same key
PrimaryKeyViolated(c, n, t) == BagIn(Row(n, t), c)

\* variant: one row per habit, INSERT OR REPLACE keyed on habit_name alone
InsertCompletionReplacing(c, n, t) ==
    [r \in (BagToSet(c) \ RowsOf(c, n)) \cup {Row(n, t)} |->
        IF r = Row(n, t) THEN 1 ELSE c[r]]

InsertCompletion(c, n, t) == c (+) SetToBag({Row(n, t)})

\* ------------------------------------------------------------ Habit class
\* Habit.__init__
HabitObject(n, p) ==
    [name |-> n, periodicity |-> p, created_at |-> today, streak |-> 0]

exists_in_db(tbl, n) == n \in DOMAIN tbl

is_completed_today(n) ==
    \E r \in BagToSet(completions) :
        r.habit_name = n /\ r.date = isoformat(today)

\* variant: the window of the weekly gate is 6 days
is_completed_within_6_days(n) ==
    LET dates == SelectDatesAsc(completions, n)
    IN  IF dates # << >>
        THEN today - strptime(dates[Len(dates)]) < 6
        ELSE FALSE

is_completed_within_7_days(n) ==
    LET dates == SelectDatesAsc(completions, n)
    IN  IF dates # << >>
        THEN today - strptime(dates[Len(dates)]) < 7
        ELSE FALSE

\* variant: a gap restarts the count, so the streak is the latest run
RECURSIVE ScanDatesRestart(_, _, _, _, _)
ScanDatesRestart(dates, i, expected_date, streak, p) ==
    IF i > Len(dates) THEN streak
    ELSE IF p = "daily"
         THEN IF dates[i] = expected_date + 1
              THEN ScanDatesRestart(dates, i + 1, dates[i], streak + 1, p)
              ELSE ScanDatesRestart(dates, i + 1, dates[i], 1, p)
    ELSE IF p = "weekly"
         THEN IF dates[i] - expected_date >= 7
              THEN ScanDatesRestart(dates, i + 1, dates[i], streak + 1, p)
              ELSE ScanDatesRestart(dates, i + 1, dates[i], 1, p)
    ELSE ScanDatesRestart(dates, i + 1, expected_date, streak, p)

\* variant: after a gap the daily scan goes on from the date it is at
RECURSIVE ScanDatesResume(_, _, _, _, _)
ScanDatesResume(dates, i, expected_date, streak, p) ==
    IF i > Len(dates) THEN streak
    ELSE IF p = "daily"
         THEN IF dates[i] = expected_date + 1
              THEN ScanDatesResume(dates, i + 1, dates[i], streak + 1, p)
              ELSE ScanDatesResume(dates, i + 1, dates[i], streak, p)
    ELSE IF p = "weekly"
         THEN IF dates[i] - expected_date >= 7
              THEN ScanDatesResume(dates, i + 1, dates[i], streak + 1, p)
              ELSE streak
    ELSE ScanDatesResume(dates, i + 1, expected_date, streak, p)

\* variant: the weekly scan goes on only over a gap of exactly 7 days
RECURSIVE ScanDatesExactWeek(_, _, _, _, _)
ScanDatesExactWeek(dates, i, expected_date, streak, p) ==
    IF i > Len(dates) THEN streak
    ELSE IF p = "daily"
         THEN IF dates[i] = expected_date + 1
              THEN ScanDatesExactWeek(dates, i + 1, dates[i], streak + 1, p)
              ELSE streak
    ELSE IF p = "weekly"
         THEN IF dates[i] - expected_date = 7
              THEN ScanDatesExactWeek(dates, i + 1, dates[i], streak + 1, p)
              ELSE streak
    ELSE ScanDatesExactWeek(dates, i + 1, expected_date, streak, p)

\* the loop of update_streak over dates[1:]
RECURSIVE ScanDates(_, _, _, _, _)
ScanDates(dates, i, expected_date, streak, p) ==
    IF i > Len(dates) THEN streak
    ELSE IF p = "daily"
         THEN IF dates[i] = expected_date + 1
              THEN ScanDates(dates, i + 1, dates[i], streak + 1, p)
              ELSE streak
    ELSE IF p = "weekly"
         THEN IF dates[i] - expected_date >= 7
              THEN ScanDates(dates, i + 1, dates[i], streak + 1, p)
              ELSE streak
    ELSE ScanDates(dates, i + 1, expected_date, streak, p)

\* dates = [strptime(row[0]) for row in cursor.fetchall()]
ParsedDates(c, n) ==
    LET texts == SelectDatesAsc(c, n)
    IN  [i \in 1..Len(texts) |-> strptime(texts[i])]

\* variant: the scan counts on from the object's streak, self.streak = 1
\* at the first date being left out
ComputedStreakCarried(c, n, p) ==
    LET dates == ParsedDates(c, n)
    IN  IF dates = << >> THEN 0
        ELSE ScanDates(dates, 2, dates[1], self.streak, p)

\* the value update_streak leaves in self.streak
ComputedStreak(c, n, p) ==
    LET dates == ParsedDates(c, n)
    IN  IF dates = << >> THEN 0
        ELSE ScanDates(dates, 2, dates[1], 1, p)

\* variant: UPDATE habits SET streak = ? without its WHERE clause
StreakWrittenNoWhere(tbl, c, n, p) ==
    IF ParsedDates(c, n) = << >> THEN tbl
    ELSE [m \in DOMAIN tbl |->
             [tbl[m] EXCEPT !.streak = ComputedStreak(c, n, p)]]

\* the habits table after update_streak of an object (n, p): nothing is
\* written when there are no dates (early return) or no row is named n
StreakWritten(tbl, c, n, p) ==
    IF ParsedDates(c, n) = << >> \/ ~exists_in_db(tbl, n) THEN tbl
    ELSE [tbl EXCEPT ![n].streak = ComputedStreak(c, n, p)]

\* the habits table after Habit.update_all_streaks
AllStreaksWritten(tbl, c) ==
    [n \in DOMAIN tbl |-> StreakWritten(tbl, c, n, tbl[n].periodicity)[n]]

\* the call that ran last: the object it ran on, its argument, its outcome
\* and the object's streak field when it returned
Call(op, n, p, d, outcome, streak) ==
    [op |-> op, name |-> n, periodicity |-> p, date |-> d,
     outcome |-> outcome, streak |-> streak, result |-> {}]

\* ---------------------------------------------------------------- actions
Init ==
    /\ today = Today0
    /\ habits = << >>
    /\ completions = EmptyBag
    /\ self = NoObject
    /\ last = Call("setup_database", "", "", NoDate, "None", 0)

\* habit = Habit(name, periodicity)
NewHabit(n, p) ==
    /\ self' = HabitObject(n, p)
    /\ last' = Call("Habit", n, p, NoDate, "None", 0)
    /\ UNCHANGED <<today, habits, completions>>

\* INSERT OR IGNORE INTO habits
HabitInserted(tbl, o) ==
    IF exists_in_db(tbl, o.name) THEN tbl
    ELSE [n \in DOMAIN tbl \cup {o.name} |->
             IF n = o.name
             THEN [periodicity |-> o.periodicity, created_at |-> o.created_at,
                   streak |-> o.streak]
             ELSE tbl[n]]

\* habit.save()
Save ==
    /\ self # NoObject
    /\ habits' = HabitInserted(habits, self)
    /\ last' = Call("save", self.name, self.periodicity, NoDate, "None", self.streak)
    /\ UNCHANGED <<today, completions, self>>

\* DELETE FROM habits WHERE name = n
DeletedHabits(tbl, n) == [m \in DOMAIN tbl \ {n} |-> tbl[m]]

\* variant: delete() without its second DELETE statement
CompletionsKept(c, n) == c

\* DELETE FROM completions WHERE habit_name = n
DeletedCompletions(c, n) ==
    [r \in BagToSet(c) \ RowsOf(c, n) |-> c[r]]

\* habit.delete()
Delete ==
    /\ self # NoObject
    /\ habits' = DeletedHabits(habits, self.name)
    /\ completions' = DeletedCompletions(completions, self.name)
    /\ last' = Call("delete", self.name, self.periodicity, NoDate, "None", self.streak)
    /\ UNCHANGED <<today, self>>

\* the gate of complete_task: TRUE when the call prints and returns early
Rejects(n, p, d) ==
    IF p = "weekly" THEN is_completed_within_7_days(n)
    ELSE p = "daily" /\ is_completed_today(n) /\ d = NoDate

\* (date or datetime.now()).date().isoformat()
completion_date(d) == isoformat(IF d = NoDate THEN today ELSE d)

\* variant: the early return of the gate still runs update_streak
DoCompleteTaskRecount(op, o, d, tbl) ==
    LET n == o.name
        p == o.periodicity
        t == completion_date(d)
    IN  IF Rejects(n, p, d)
        THEN /\ last' = Call(op, n, p, d, "AlreadySatisfied",
                             ComputedStreak(completions, n, p))
             /\ habits' = StreakWritten(tbl, completions, n, p)
             /\ UNCHANGED completions
        ELSE IF PrimaryKeyViolated(completions, n, t)
        THEN /\ last' = Call(op, n, p, d, "IntegrityError", o.streak)
             /\ habits' = tbl
             /\ UNCHANGED completions
        ELSE /\ BagCardinality(completions) < MaxRows
             /\ completions' = InsertCompletion(completions, n, t)
             /\ habits' = StreakWritten(tbl, completions', n, p)
             /\ last' = Call(op, n, p, d, "Recorded",
                             ComputedStreak(completions', n, p))

\* the body of complete_task on object o with argument d, the habits table
\* being tbl when it starts; op names the caller.  The insert raises
\* sqlite3.IntegrityError on a duplicate key, before update_streak runs.
DoCompleteTask(op, o, d, tbl) ==
    LET n == o.name
        p == o.periodicity
        t == completion_date(d)
    IN  IF Rejects(n, p, d)
        THEN /\ last' = Call(op, n, p, d, "AlreadySatisfied", o.streak)
             /\ habits' = tbl
             /\ UNCHANGED completions
        ELSE IF PrimaryKeyViolated(completions, n, t)
        THEN /\ last' = Call(op, n, p, d, "IntegrityError", o.streak)
             /\ habits' = tbl
             /\ UNCHANGED completions
        ELSE /\ BagCardinality(completions) < MaxRows
             /\ completions' = InsertCompletion(completions, n, t)
             /\ habits' = StreakWritten(tbl, completions', n, p)
             /\ last' = Call(op, n, p, d, "Recorded",
                             ComputedStreak(completions', n, p))

\* habit.complete_task(date): d is None or a date
CompleteTask(d) ==
    /\ self # NoObject
    /\ DoCompleteTask("complete_task", self, d, habits)
    /\ self' = [self EXCEPT !.streak = last'.streak]
    /\ UNCHANGED today

\* the statements of complete_task at which sqlite3 can raise, or the
\* process can stop: the INSERT and its commit, the SELECT of update_streak,
\* the UPDATE of update_streak and its commit
FailurePoints == {"insert", "select", "update"}

\* habit.complete_task(date) that passes its gate and fails at point pt.
\* The INSERT is committed before update_streak opens its own connection,
\* so a failure inside update_streak leaves the row; self.streak is assigned
\* before the UPDATE runs.
CompleteTaskFailing(d, pt) ==
    LET n == self.name
        p == self.periodicity
        t == completion_date(d)
    IN  /\ self # NoObject
        /\ ~Rejects(n, p, d)
        /\ IF pt = "insert"
           THEN UNCHANGED <<completions, self>>
           ELSE /\ ~PrimaryKeyViolated(completions, n, t)
                /\ BagCardinality(completions) < MaxRows
                /\ completions' = InsertCompletion(completions, n, t)
                /\ self' = IF pt = "update"
                           THEN [self EXCEPT !.streak =
                                    ComputedStreak(completions', n, p)]
                           ELSE self
        /\ last' = Call("complete_task", n, p, d, "StorageFailure", self'.streak)
        /\ UNCHANGED <<today, habits>>

\* habit.update_streak()
UpdateStreak ==
    /\ self # NoObject
    /\ self' = [self EXCEPT !.streak =
                   ComputedStreak(completions, self.name, self.periodicity)]
    /\ habits' = StreakWritten(habits, completions, self.name, self.periodicity)
    /\ last' = Call("update_streak", self.name, self.periodicity, NoDate,
                    "None", self'.streak)
    /\ UNCHANGED <<today, completions>>

\* Habit.update_all_streaks(), also what a read-only cli command does
UpdateAllStreaks ==
    /\ habits' = AllStreaksWritten(habits, completions)
    /\ last' = Call("update_all_streaks", "", "", NoDate, "None", 0)
    /\ UNCHANGED <<today, completions, self>>

\* analytics.get_incomplete_habits_for_today(): the names of the rows returned
incomplete_daily ==
    {n \in DOMAIN habits :
        /\ habits[n].periodicity = "daily"
        /\ n \notin {r.habit_name : r \in
                        {q \in BagToSet(completions) : q.date = isoformat(today)}}}

\* variant: seven_days_ago computed without its timedelta
incomplete_weekly_today ==
    {n \in DOMAIN habits :
        /\ habits[n].periodicity = "weekly"
        /\ n \notin {r.habit_name : r \in
                        {q \in BagToSet(completions) :
                            TextGeq(q.date, isoformat(today))}}}

\* variant: ... WHERE date > ?
incomplete_weekly_strict ==
    {n \in DOMAIN habits :
        /\ habits[n].periodicity = "weekly"
        /\ n \notin {r.habit_name : r \in
                        {q \in BagToSet(completions) :
                            TextLess(isoformat(today - 7), q.date)}}}

incomplete_weekly ==
    {n \in DOMAIN habits :
        /\ habits[n].periodicity = "weekly"
        /\ n \notin {r.habit_name : r \in
                        {q \in BagToSet(completions) :
                            TextGeq(q.date, isoformat(today - 7))}}}

get_incomplete_habits_for_today == incomplete_daily \cup incomplete_weekly

GetIncompleteHabitsForToday ==
    /\ last' = [Call("get_incomplete_habits_for_today", "", "", NoDate, "None", 0)
                   EXCEPT !.result = get_incomplete_habits_for_today]
    /\ UNCHANGED <<today, habits, completions, self>>

\* Python's None, and a value that is not None
None == {}

Some(v) == {v}

\* cursor.fetchone() of SELECT MAX(streak) FROM habits: an aggregate yields
\* one row whatever the table holds, and MAX over no rows is NULL
SelectMaxStreak(tbl) ==
    << IF DOMAIN tbl = {} THEN None
       ELSE Some(CHOOSE v \in {tbl[n].streak : n \in DOMAIN tbl} :
                    \A m \in DOMAIN tbl : tbl[m].streak <= v) >>

\* analytics.longest_streak_all_habits(): result[0] if result else 0
longest_streak_all_habits(tbl) ==
    LET result == SelectMaxStreak(tbl)
    IN  IF result # << >> THEN result[1] ELSE Some(0)

\* python cli.py longest-streak: cli() runs update_all_streaks first
CliLongestStreak ==
    /\ habits' = AllStreaksWritten(habits, completions)
    /\ last' = [Call("cli longest-streak", "", "", NoDate, "None", 0)
                   EXCEPT !.result = longest_streak_all_habits(habits')]
    /\ UNCHANGED <<today, completions, self>>

\* variant: SELECT streak FROM habits, without its WHERE clause
SelectStreakAnyRow(tbl, n) ==
    IF DOMAIN tbl = {} THEN << >>
    ELSE << Some(tbl[CHOOSE m \in DOMAIN tbl : TRUE].streak) >>

\* cursor.fetchone() of SELECT streak FROM habits WHERE name = n: the row,
\* or no row
SelectStreak(tbl, n) ==
    IF exists_in_db(tbl, n) THEN << Some(tbl[n].streak) >> ELSE << >>

\* analytics.longest_streak_for_habit(name): result[0] if result else None
longest_streak_for_habit(tbl, n) ==
    LET result == SelectStreak(tbl, n)
    IN  IF result # << >> THEN result[1] ELSE None

\* python cli.py streak-for-habit NAME
CliStreakForHabit(n) ==
    /\ habits' = AllStreaksWritten(habits, completions)
    /\ last' = [Call("cli streak-for-habit", n, "", NoDate, "None", 0)
                   EXCEPT !.result = longest_streak_for_habit(habits', n)]
    /\ UNCHANGED <<today, completions, self>>

\* python cli.py complete NAME: cli() runs update_all_streaks first
CliComplete(n) ==
    LET tbl == AllStreaksWritten(habits, completions)
    IN  /\ IF ~exists_in_db(tbl, n)
           THEN /\ last' = Call("cli complete", n, "daily", NoDate, "NotFound", 0)
                /\ habits' = tbl
                /\ UNCHANGED completions
           ELSE IF is_completed_today(n)
           THEN /\ last' = Call("cli complete", n, "daily", NoDate, "CompletedToday", 0)
                /\ habits' = tbl
                /\ UNCHANGED completions
           ELSE DoCompleteTask("cli complete", HabitObject(n, "daily"), NoDate, tbl)
        /\ UNCHANGED <<today, self>>

\* python cli.py add NAME PERIODICITY
CliAdd(n, p) ==
    LET tbl == AllStreaksWritten(habits, completions)
    IN  /\ IF exists_in_db(tbl, n)
           THEN /\ habits' = tbl
                /\ last' = Call("cli add", n, p, NoDate, "AlreadyExists", 0)
           ELSE /\ habits' = HabitInserted(tbl, HabitObject(n, p))
                /\ last' = Call("cli add", n, p, NoDate, "Added", 0)
        /\ UNCHANGED <<today, completions, self>>

\* python cli.py delete NAME
CliDelete(n) ==
    LET tbl == AllStreaksWritten(habits, completions)
    IN  /\ IF exists_in_db(tbl, n)
           THEN /\ habits' = DeletedHabits(tbl, n)
                /\ completions' = DeletedCompletions(completions, n)
                /\ last' = Call("cli delete", n, "daily", NoDate, "Deleted", 0)
           ELSE /\ habits' = tbl
                /\ UNCHANGED completions
                /\ last' = Call("cli delete", n, "daily", NoDate, "NotFound", 0)
        /\ UNCHANGED <<today, self>>

\* midnight passes
Tick ==
    /\ today < Today0 + MaxTicks
    /\ today' = today + 1
    /\ last' = Call("midnight", "", "", NoDate, "None", 0)
    /\ UNCHANGED <<habits, completions, self>>

\* date=None, or a datetime some days before now
DateArgs == {NoDate} \cup {today - o : o \in DateOffsets}

\* the Habit class as a script or test drives it, within one day
Next ==
    \/ \E n \in Names, p \in Periodicities : NewHabit(n, p)
    \/ Save
    \/ Delete
    \/ \E d \in DateArgs : CompleteTask(d)
    \/ UpdateStreak
    \/ UpdateAllStreaks

Spec == Init /\ [][Next]_vars

\* the command line, one command per step, over several days
NextCli ==
    \/ \E n \in Names : CliComplete(n)
    \/ \E n \in Names, p \in Periodicities : CliAdd(n, p)
    \/ \E n \in Names : CliDelete(n)
    \/ CliLongestStreak
    \/ \E n \in Names : CliStreakForHabit(n)
    \/ Tick

SpecCli == Init /\ [][NextCli]_vars

\* recording completions while the storage can fail
NextFailure ==
    \/ \E n \in Names, p \in Periodicities : NewHabit(n, p)
    \/ Save
    \/ \E d \in DateArgs : CompleteTask(d)
    \/ \E d \in DateArgs, pt \in FailurePoints : CompleteTaskFailing(d, pt)

SpecFailure == Init /\ [][NextFailure]_vars

\* two processes, each running habit.complete_task for the same habit on
\* the same day; in this specification self[i] is the Habit object of
\* process i, with the date argument, the position and the outcome of its
\* call.  Each SQL statement is one step.
Procs == {1, 2}

\* date=None and date=datetime.now() name the same calendar date
ConcurrentDates == {NoDate, Today0}

ConcurrentHistories ==
    {EmptyBag} \cup {SetToBag({Row("Exercise", isoformat(Today0 - o))}) : o \in {1, 7}}

Process(p, d) ==
    [name |-> "Exercise", periodicity |-> p, created_at |-> Today0, streak |-> 0,
     date |-> d, pc |-> "gate", outcome |-> "None"]

InitConcurrent ==
    /\ today = Today0
    /\ completions \in ConcurrentHistories
    /\ \E p \in Periodicities :
          habits = [n \in {"Exercise"} |->
                       [periodicity |-> p, created_at |-> Today0,
                        streak |-> ComputedStreak(completions, n, p)]]
    /\ self \in [Procs -> {Process(p, d) : p \in Periodicities, d \in ConcurrentDates}]
    /\ last = Call("setup_database", "", "", NoDate, "None", 0)

\* what a step of process i leaves in last
Step(i, o) == Call("complete_task", o.name, o.periodicity, o.date, o.pc, o.streak)

\* the gate: is_completed_within_7_days() or is_completed_today()
GateChecked(i) ==
    LET o == self[i]
        q == IF Rejects(o.name, o.periodicity, o.date)
             THEN [o EXCEPT !.pc = "done", !.outcome = "AlreadySatisfied"]
             ELSE [o EXCEPT !.pc = "insert"]
    IN  /\ o.pc = "gate"
        /\ self' = [self EXCEPT ![i] = q]
        /\ last' = Step(i, q)
        /\ UNCHANGED <<today, habits, completions>>

\* variant: the INSERT is not refused on a duplicate key
RowInsertedUnchecked(i) ==
    LET o == self[i]
        q == [o EXCEPT !.pc = "select"]
    IN  /\ o.pc = "insert"
        /\ completions' = InsertCompletion(completions, o.name, completion_date(o.date))
        /\ self' = [self EXCEPT ![i] = q]
        /\ last' = Step(i, q)
        /\ UNCHANGED <<today, habits>>

\* INSERT INTO completions and conn.commit(): sqlite3.IntegrityError ends
\* the call when the key is already stored
RowInserted(i) ==
    LET o == self[i]
        t == completion_date(o.date)
        q == IF PrimaryKeyViolated(completions, o.name, t)
             THEN [o EXCEPT !.pc = "done", !.outcome = "IntegrityError"]
             ELSE [o EXCEPT !.pc = "select"]
    IN  /\ o.pc = "insert"
        /\ completions' = IF PrimaryKeyViolated(completions, o.name, t)
                          THEN completions
                          ELSE InsertCompletion(completions, o.name, t)
        /\ self' = [self EXCEPT ![i] = q]
        /\ last' = Step(i, q)
        /\ UNCHANGED <<today, habits>>

\* update_streak: the SELECT of the dates and the scan into self.streak
DatesSelected(i) ==
    LET o == self[i]
        q == IF ParsedDates(completions, o.name) = << >>
             THEN [o EXCEPT !.pc = "done", !.outcome = "Recorded", !.streak = 0]
             ELSE [o EXCEPT !.pc = "update",
                            !.streak = ComputedStreak(completions, o.name,
                                                      o.periodicity)]
    IN  /\ o.pc = "select"
        /\ self' = [self EXCEPT ![i] = q]
        /\ last' = Step(i, q)
        /\ UNCHANGED <<today, habits, completions>>

\* update_streak: UPDATE habits SET streak = ? WHERE name = ?
StreakUpdated(i) ==
    LET o == self[i]
        q == [o EXCEPT !.pc = "done", !.outcome = "Recorded"]
    IN  /\ o.pc = "update"
        /\ habits' = IF exists_in_db(habits, o.name)
                     THEN [habits EXCEPT ![o.name].streak = o.streak]
                     ELSE habits
        /\ self' = [self EXCEPT ![i] = q]
        /\ last' = Step(i, q)
        /\ UNCHANGED <<today, completions>>

NextConcurrent ==
    \E i \in Procs :
        \/ GateChecked(i)
        \/ RowInserted(i)
        \/ DatesSelected(i)
        \/ StreakUpdated(i)

SpecConcurrent == InitConcurrent /\ [][NextConcurrent]_vars

\* one habit used day after day through complete_task() with its default
\* date: the clock runs MaxWeeks weeks for a weekly habit and MaxRun days
\* for a daily one
ClockEnd(p) == Today0 + (IF p = "weekly" THEN 7 * MaxWeeks ELSE MaxRun)

\* habit = Habit("Exercise", p); habit.save()
InitClock ==
    /\ today = Today0
    /\ completions = EmptyBag
    /\ \E p \in Periodicities :
          /\ self = [name |-> "Exercise", periodicity |-> p,
                     created_at |-> Today0, streak |-> 0]
          /\ habits = [n \in {"Exercise"} |->
                          [periodicity |-> p, created_at |-> Today0, streak |-> 0]]
    /\ last = Call("save", "Exercise", self.periodicity, NoDate, "None", 0)

\* habit.complete_task(): date is None, so the row is dated today and the
\* clock bounds the number of rows
CompleteTaskToday ==
    LET n == self.name
        p == self.periodicity
        t == completion_date(NoDate)
    IN  /\ IF Rejects(n, p, NoDate)
           THEN /\ last' = Call("complete_task", n, p, NoDate,
                                "AlreadySatisfied", self.streak)
                /\ UNCHANGED <<habits, completions>>
           ELSE IF PrimaryKeyViolated(completions, n, t)
           THEN /\ last' = Call("complete_task", n, p, NoDate,
                                "IntegrityError", self.streak)
                /\ UNCHANGED <<habits, completions>>
           ELSE /\ completions' = InsertCompletion(completions, n, t)
                /\ habits' = StreakWritten(habits, completions', n, p)
                /\ last' = Call("complete_task", n, p, NoDate, "Recorded",
                                ComputedStreak(completions', n, p))
        /\ self' = [self EXCEPT !.streak = last'.streak]
        /\ UNCHANGED today

\* midnight passes: datetime.now() never goes back
Midnight ==
    /\ today < ClockEnd(self.periodicity)
    /\ today' = today + 1
    /\ last' = Call("midnight", "", "", NoDate, "None", 0)
    /\ UNCHANGED <<habits, completions, self>>

NextClock ==
    \/ CompleteTaskToday
    \/ Midnight

SpecClock == InitClock /\ [][NextClock]_vars

\* update_streak over stored histories: one habit, saved, with any set of
\* completion dates among StreakOffsets
StreakHistories ==
    {SetToBag({Row("Exercise", isoformat(Today0 - o)) : o \in os}) :
        os \in SUBSET StreakOffsets}

InitStreak ==
    /\ today = Today0
    /\ \E p \in Periodicities :
          /\ self = [name |-> "Exercise", periodicity |-> p,
                     created_at |-> Today0, streak |-> 0]
          /\ habits = [n \in {"Exercise"} |->
                          [periodicity |-> p, created_at |-> Today0, streak |-> 0]]
    /\ completions \in StreakHistories
    /\ last = Call("setup_database", "", "", NoDate, "None", 0)

NextStreak == UpdateStreak

SpecStreak == InitStreak /\ [][NextStreak]_vars

\* the due query over stored tables: each habit absent, daily or weekly,
\* with any set of completion dates among QueryOffsets
QueryHabits ==
    UNION {[ns -> {[periodicity |-> p, created_at |-> Today0, streak |-> 0] :
                      p \in Periodicities}] : ns \in SUBSET Names}

QueryHistories ==
    {SetToBag(rs) :
        rs \in SUBSET {Row(n, isoformat(Today0 - o)) : n \in Names, o \in QueryOffsets}}

InitQuery ==
    /\ today = Today0
    /\ self = NoObject
    /\ habits \in QueryHabits
    /\ completions \in QueryHistories
    /\ last = Call("setup_database", "", "", NoDate, "None", 0)

NextQuery == GetIncompleteHabitsForToday

SpecQuery == InitQuery /\ [][NextQuery]_vars

TypeOK ==
    /\ today \in Today0..(Today0 + MaxTicks)
    /\ DOMAIN habits \subseteq Names
    /\ \A n \in DOMAIN habits : habits[n].streak \in Nat
    /\ IsABag(completions)

\* ------------------------------------------------------------ properties
\* the calendar dates a stored history can hold
DateUniverse == (Today0 - 7 * MaxWeeks)..(Today0 + MaxTicks)

\* the calendar dates of the completion rows of habit n in table c
IsoText == [d \in DateUniverse |-> isoformat(d)]

CompletionDates(c, n) ==
    {d \in DateUniverse : BagIn(Row(n, IsoText[d]), c)}

Min(S) == CHOOSE x \in S : \A y \in S : x <= y

Max(S) == CHOOSE x \in S : \A y \in S : x >= y

\* the i-th earliest date of S
Nth(S, i) == CHOOSE x \in S : Cardinality({y \in S : y < x}) = i - 1

\* length of the run of consecutive days that starts at the earliest date
DailyRun(S) ==
    Max({j \in 1..Cardinality(S) : \A i \in 0..(j - 1) : Min(S) + i \in S})

\* 1 + the number of leading successive gaps of at least 7 days
WeeklyLead(S) ==
    Max({j \in 1..Cardinality(S) :
            \A i \in 1..(j - 1) : Nth(S, i + 1) - Nth(S, i) >= 7})

\* the reference date of the last call
ReferenceDate(call) == IF call.date = NoDate THEN today ELSE call.date

\* C1: after every complete_task call that returned, directly or through
\* `cli complete`, recorded or rejected, the stored streak of the habit is
\* what the streak algorithm yields from its stored completion dates and
\* its stored periodicity.
C1_CachedStreak ==
    ( /\ last.op \in {"complete_task", "cli complete"}
      /\ last.outcome \in {"Recorded", "AlreadySatisfied", "CompletedToday"}
      /\ last.name \in DOMAIN habits )
    => habits[last.name].streak =
          ComputedStreak(completions, last.name, habits[last.name].periodicity)

\* C2: for a daily habit with completions, update_streak yields the length
\* of the run of consecutive days starting at the earliest completion date.
C2_DailyStreak ==
    ( /\ last.op = "update_streak"
      /\ last.periodicity = "daily"
      /\ CompletionDates(completions, last.name) # {} )
    => last.streak = DailyRun(CompletionDates(completions, last.name))

\* C2 witness: the scan stopped at a gap and later dates were not counted
C2_Witness ==
    /\ last.op = "update_streak"
    /\ last.periodicity = "daily"
    /\ last.streak = 2
    /\ Cardinality(CompletionDates(completions, last.name)) = 4

C4_WeeklyBreaksOnSkip ==
    ( /\ last.op = "update_streak"
      /\ last.periodicity = "weekly"
      /\ last.name \in DOMAIN habits
      /\ habits[last.name].periodicity = "weekly"
      /\ CompletionDates(completions, last.name) # {}
      /\ CompletionDates(completions, last.name) \subseteq {today - 14, today} )
    => last.streak = 1

\* C5: complete_task on a stored weekly habit with reference date r, a date
\* later than every completion, is rejected exactly when the most recent
\* completion is less than 7 days before r.
C5_WeeklyGate ==
    [][ ( /\ last'.op = "complete_task"
          /\ last'.periodicity = "weekly"
          /\ last'.name \in DOMAIN habits
          /\ habits[last'.name].periodicity = "weekly"
          /\ \A d \in CompletionDates(completions, last'.name) :
                d < ReferenceDate(last') )
        => LET D == CompletionDates(completions, last'.name)
               r == ReferenceDate(last')
           IN  (last'.outcome = "AlreadySatisfied")
                  <=> (D # {} /\ r - Max(D) < 7) ]_vars

\* C6: complete_task on a stored daily habit for a reference date that has
\* a completion is rejected as already satisfied, raises nothing, and one
\* row for that habit and date remains.
C6_DailyGate ==
    [][ ( /\ last'.op = "complete_task"
          /\ last'.periodicity = "daily"
          /\ last'.name \in DOMAIN habits
          /\ habits[last'.name].periodicity = "daily"
          /\ ReferenceDate(last') \in CompletionDates(completions, last'.name) )
        => /\ last'.outcome = "AlreadySatisfied"
           /\ CopiesIn(Row(last'.name, isoformat(ReferenceDate(last'))),
                       completions') = 1 ]_vars

\* C7: the completions table holds at most one row per habit name and date.
C7_OneRowPerDate ==
    \A r \in BagToSet(completions) : CopiesIn(r, completions) <= 1

\* C7 witness: a second row for a stored habit and date was attempted
C7_Witness ==
    /\ last.op = "complete_task"
    /\ last.outcome = "IntegrityError"
    /\ BagIn(Row(last.name, isoformat(ReferenceDate(last))), completions)

\* C8: a complete_task that rejects (weekly habit completed within the last
\* 7 days, or daily habit completed today) changes no completion row and
\* no stored streak.
C8_RejectedIsNoOp ==
    [][ ( /\ last'.op = "complete_task"
          /\ last'.outcome = "AlreadySatisfied" )
        => /\ completions' = completions
           /\ habits' = habits
           /\ LET D == CompletionDates(completions, last'.name)
              IN  \/ /\ last'.periodicity = "weekly"
                     /\ \E d \in D : today - d < 7
                  \/ /\ last'.periodicity = "daily"
                     /\ today \in D ]_vars

\* C8 witness: a weekly habit was rejected while another habit has rows
C8_Witness ==
    /\ last.op = "complete_task"
    /\ last.outcome = "AlreadySatisfied"
    /\ last.periodicity = "weekly"
    /\ \E m \in DOMAIN habits : m # last.name /\ RowsOf(completions, m) # {}

\* C9: a successful complete_task on habit h with reference date d adds
\* exactly the row (h, d) and leaves the rows and the stored streak of
\* every other habit unchanged.
C9_RecordedFrame ==
    [][ ( /\ last'.op = "complete_task"
          /\ last'.outcome = "Recorded" )
        => LET h == last'.name
               row == Row(h, isoformat(ReferenceDate(last')))
           IN  /\ ~BagIn(row, completions)
               /\ completions' = completions (+) SetToBag({row})
               /\ DOMAIN habits' = DOMAIN habits
               /\ \A m \in DOMAIN habits : m # h => habits'[m] = habits[m] ]_vars

\* C9 witness: a row was recorded while another stored habit has a row
C9_Witness ==
    /\ last.op = "complete_task"
    /\ last.outcome = "Recorded"
    /\ last.name \in DOMAIN habits
    /\ \E m \in DOMAIN habits : m # last.name /\ RowsOf(completions, m) # {}

\* C10: get_incomplete_habits_for_today returns exactly the daily habits
\* with no completion dated today and the weekly habits with no completion
\* dated today minus 7 days or later.
C10_IncompleteHabits ==
    last.op = "get_incomplete_habits_for_today"
    => last.result =
          {n \in DOMAIN habits :
              \/ /\ habits[n].periodicity = "daily"
                 /\ today \notin CompletionDates(completions, n)
              \/ /\ habits[n].periodicity = "weekly"
                 /\ \A d \in CompletionDates(completions, n) : d < today - 7}

\* C10 witness: a weekly habit whose only completion is 8 days old is
\* returned and a weekly habit completed 7 days ago is not
C10_Witness ==
    /\ last.op = "get_incomplete_habits_for_today"
    /\ \E n \in last.result :
          /\ habits[n].periodicity = "weekly"
          /\ CompletionDates(completions, n) = {today - 8}
    /\ \E m \in DOMAIN habits \ last.result :
          /\ habits[m].periodicity = "weekly"
          /\ CompletionDates(completions, m) = {today - 7}

\* C11: longest_streak_all_habits returns the maximum of the stored streaks
\* over all habits, and the integer 0, not None, when the habits table is
\* empty.
C11_LongestStreakAll ==
    last.op = "cli longest-streak"
    => last.result =
          IF DOMAIN habits = {} THEN Some(0)
          ELSE Some(Max({habits[n].streak : n \in DOMAIN habits}))

\* C12: Habit.delete on an object named h leaves no habit row named h and
\* no completion row of h, and leaves the habit row and the completion
\* rows of every other habit as they were.
C12_CascadeDelete ==
    [][ last'.op = "delete"
        => LET h == last'.name
           IN  /\ ~exists_in_db(habits', h)
               /\ RowsOf(completions', h) = {}
               /\ DOMAIN habits' = DOMAIN habits \ {h}
               /\ \A m \in DOMAIN habits' : habits'[m] = habits[m]
               /\ \A m \in Names \ {h} :
                     BagOf(completions', m) = BagOf(completions, m) ]_vars

\* C12 witness: a stored habit with a completion row was deleted while
\* another stored habit keeps a completion row
C12_Witness ==
    /\ last.op = "delete"
    /\ self.streak > 0
    /\ ~exists_in_db(habits, last.name)
    /\ \E m \in DOMAIN habits : RowsOf(completions, m) # {}

\* C13: `cli add NAME PERIODICITY` for a name that already has a habit row
\* changes nothing: the habits table, with the periodicity, created_at and
\* stored streak of the existing habit, and the completions table are as
\* they were before the command.
C13_DuplicateAdd ==
    [][ ( /\ last'.op = "cli add"
          /\ last'.outcome = "AlreadyExists" )
        => /\ habits' = habits
           /\ completions' = completions ]_vars

\* C14: complete_task for a name that has no habit row reports not found
\* and creates no completion row and no habit row.
C14_UnknownHabit ==
    [][ ( /\ last'.op \in {"complete_task", "cli complete"}
          /\ ~exists_in_db(habits, last'.name) )
        => /\ last'.outcome = "NotFound"
           /\ completions' = completions
           /\ habits' = habits ]_vars

\* C15: a complete_task call that fails at any point leaves either both the
\* new completion row and the recomputed stored streak, or neither.
C15_AllOrNothing ==
    [][ ( /\ last'.op = "complete_task"
          /\ last'.outcome = "StorageFailure" )
        => LET n == last'.name
               row == Row(n, isoformat(ReferenceDate(last')))
           IN  \/ /\ completions' = completions
                  /\ habits' = habits
               \/ /\ completions' = completions (+) SetToBag({row})
                  /\ habits' = StreakWritten(habits, completions', n,
                                             last'.periodicity) ]_vars

\* C16: update_streak on a stored habit that has no completion rows yields
\* 0 and stores it: the stored streak of the habit is 0 after the call.
C16_EmptyHistoryStoresZero ==
    ( /\ last.op = "update_streak"
      /\ exists_in_db(habits, last.name)
      /\ RowsOf(completions, last.name) = {} )
    => /\ last.streak = 0
       /\ habits[last.name].streak = 0

\* C17: after Habit.update_all_streaks, the stored streak of every habit is
\* what the streak algorithm yields from its stored periodicity and its
\* completion dates.
C17_AllStreaksHealed ==
    last.op = "update_all_streaks"
    => \A n \in DOMAIN habits :
          habits[n].streak =
             ComputedStreak(completions, n, habits[n].periodicity)

\* C18: update_streak called twice in a row on the same object, no
\* completion added or removed in between, yields the same streak value
\* and leaves the same stored streak both times.
C18_UpdateStreakIdempotent ==
    [][ ( /\ last.op = "update_streak"
          /\ last'.op = "update_streak" )
        => /\ last'.streak = last.streak
           /\ self'.streak = self.streak
           /\ habits' = habits ]_vars

\* C18 witness: update_streak has run on a stored habit whose history has
\* a run and a gap, and the stored streak is the value it yielded
C18_Witness ==
    /\ last.op = "update_streak"
    /\ last.streak = 3
    /\ self.streak = 3
    /\ habits[last.name].streak = 3
    /\ Cardinality(CompletionDates(completions, last.name)) = 5

\* C19: longest_streak_for_habit(name) returns the stored streak of the
\* habit named name when it exists and None when it does not, never the
\* streak of another habit.
C19_StreakForHabit ==
    last.op = "cli streak-for-habit"
    => last.result =
          IF exists_in_db(habits, last.name)
          THEN Some(habits[last.name].streak)
          ELSE None

\* C19 witness: the streak of one of two stored habits with different
\* stored streaks was returned
C19_Witness ==
    /\ last.op = "cli streak-for-habit"
    /\ exists_in_db(habits, last.name)
    /\ last.result = Some(0)
    /\ \E m \in DOMAIN habits : habits[m].streak > 0

\* C20: `cli complete NAME` on a habit stored as weekly whose most recent
\* completion is fewer than 7 days before today adds no completion row.
C20_CliWeeklyGate ==
    [][ ( /\ last'.op = "cli complete"
          /\ exists_in_db(habits, last'.name)
          /\ habits[last'.name].periodicity = "weekly"
          /\ CompletionDates(completions, last'.name) # {}
          /\ today - Max(CompletionDates(completions, last'.name)) < 7 )
        => completions' = completions ]_vars

\* C21: every completion row's habit_name is the name of a habit row, in
\* every state reached by save, complete_task and delete calls.
C21_ReferentialIntegrity ==
    \A r \in BagToSet(completions) : exists_in_db(habits, r.habit_name)

\* C22: a completion row, once stored, is still stored after every later
\* call, with the same habit name and date, unless the call is the delete
\* of the habit it names.
C22_AppendOnly ==
    [][ \A r \in BagToSet(completions) :
           \/ CopiesIn(r, completions') = CopiesIn(r, completions)
           \/ /\ last'.op = "delete"
              /\ last'.name = r.habit_name ]_vars

\* C22 witness: a second completion was recorded for a habit and the
\* earlier row is still stored
C22_Witness ==
    /\ last.op = "complete_task"
    /\ last.outcome = "Recorded"
    /\ Cardinality(RowsOf(completions, last.name)) = 2

\* C23: however two concurrent complete_task calls for the same habit and
\* the same calendar date interleave, at most one completion row for that
\* habit and date is stored.
C23_ConcurrentOneRow ==
    \A i \in Procs :
        CopiesIn(Row(self[i].name, completion_date(self[i].date)),
                 completions) <= 1

\* C23 witness: both calls passed the gate, one stored the row and the
\* other was refused by the primary key
C23_Witness ==
    \E i, j \in Procs :
        /\ self[i].outcome = "Recorded"
        /\ self[j].outcome = "IntegrityError"
        /\ CopiesIn(Row(self[i].name, isoformat(today)), completions) = 1

\* C24: the stored streak of every habit is a non-negative integer that is
\* at most the number of completion rows of that habit.
C24_StreakBounds ==
    \A n \in DOMAIN habits :
        /\ habits[n].streak \in Nat
        /\ habits[n].streak <= BagCardinality(BagOf(completions, n))

\* C25: every habit that get_incomplete_habits_for_today lists passes the
\* gate of complete_task called with the default date on an object of its
\* stored periodicity, and its row for today is not refused: the call
\* inserts a completion.
C25_DueIsRecordable ==
    last.op = "get_incomplete_habits_for_today"
    => \A n \in last.result :
          /\ ~Rejects(n, habits[n].periodicity, NoDate)
          /\ ~PrimaryKeyViolated(completions, n, completion_date(NoDate))

\* C25 witness: the query listed a weekly habit last completed 8 days ago
\* and a daily habit last completed yesterday
C25_Witness ==
    /\ last.op = "get_incomplete_habits_for_today"
    /\ \E n, m \in last.result :
          /\ habits[n].periodicity = "weekly"
          /\ Max(CompletionDates(completions, n) \cup {0}) = today - 8
          /\ habits[m].periodicity = "daily"
          /\ Max(CompletionDates(completions, m) \cup {0}) = today - 1

\* the calendar dates the clock of SpecClock reaches
ClockDates == Today0..(Today0 + 7 * MaxWeeks)

ClockText == [d \in ClockDates |-> isoformat(d)]

\* the calendar dates of the completion rows of habit n recorded under
\* that clock
DatesRecorded(c, n) == {d \in ClockDates : BagIn(Row(n, ClockText[d]), c)}

C27_DailyStreakFreezes ==
    [][ self.periodicity = "daily"
        => LET n == self.name
               D == DatesRecorded(completions, n)
           IN  /\ habits'[n].streak >= habits[n].streak
               /\ ( /\ D # {}
                    /\ \E d \in Min(D)..(today - 1) : d \notin D )
                  => habits'[n].streak = habits[n].streak ]_vars

\* C27 witness: after two completed days and a missed one, two more days
\* were completed and the stored streak is still 2
C27_Witness ==
    /\ self.periodicity = "daily"
    /\ last.op = "complete_task"
    /\ last.outcome = "Recorded"
    /\ DatesRecorded(completions, self.name) =
          {Today0, Today0 + 1, Today0 + 3, Today0 + 4}
    /\ habits[self.name].streak = 2

====
